---- MODULE Spec2Model ----
(***************************************************************************)
(* Drift detectors of the repository: PCACD (src/src/molten/distribution/  *)
(* pca_cd.py) and EDDM (src/src/menelaus/concept_drift/eddm.py), both      *)
(* built on the DriftDetector base class.  One detector instance is        *)
(* modelled at a time (det says which); its public operations update and   *)
(* reset are the actions.  An exception raised inside an operation leaves  *)
(* the fields as the code had assigned them up to the raise, is recorded   *)
(* in raised, and ends the run of that instance (nothing catches it).      *)
(*                                                                         *)
(* Numbers: Python floats are modelled by integers.  EDDM's statistics are *)
(* fixed-point numbers with FP units per 1.  PCACD's scaler, projection    *)
(* and densities are computed in integer units that are stated where each  *)
(* is defined.  None is the string "None", NaN the integer NaN.            *)
(***************************************************************************)
EXTENDS Integers, Sequences, FiniteSets, TLC

VARIABLES
  det,                  \* which class the instance is: "PCACD" or "EDDM" ("DIV": none, pure functions only)
  total_samples,        \* DriftDetector.total_samples
  samples_since_reset,  \* DriftDetector.samples_since_reset
  drift_state,          \* DriftDetector.drift_state: "None", "warning", "drift"
  raised,               \* "none", or the exception the last call ended with
  call,                 \* the last call: [op, arg, in_drift, in_build, evaluated, detected]
  cfg,                  \* the constructor's arguments
  ed,                   \* EDDM's private fields
  pc,                   \* PCACD's private fields
  ph,                   \* PCACD._drift_detection_monitor (PageHinkley)
  resets,               \* the number of calls of reset() so far
  recent,               \* the observations of the last window_size calls of PCACD.update
  warn_start,           \* EDDM: index of the update that began the present warning region, -1 if none
  dv                    \* inputs and results of the divergence functions

vars == <<det, total_samples, samples_since_reset, drift_state, raised, call,
          cfg, ed, pc, ph, resets, recent, warn_start, dv>>

----------------------------------------------------------------------------
(* Bounds of the model *)

MaxSamples == 9

MaxResets == 1

(* Python's NaN (pandas fills a missing cell with it); an integer no
   observation, scaled value or projection of the model reaches. *)
NaN == 99999

(* Fixed-point unit of EDDM's float statistics. *)
FP == 100

None == "None"

----------------------------------------------------------------------------
(* Arithmetic helpers *)

Abs(x) == IF x < 0 THEN -x ELSE x

Max2(a, b) == IF a >= b THEN a ELSE b

Min2(a, b) == IF a <= b THEN a ELSE b

RECURSIVE SumSeq(_)
SumSeq(s) == IF s = <<>> THEN 0 ELSE Head(s) + SumSeq(Tail(s))

RECURSIVE ISqrtB(_, _, _)
ISqrtB(k, lo, hi) ==
  IF lo >= hi THEN lo
  ELSE LET mid == (lo + hi + 1) \div 2
       IN IF mid * mid <= k THEN ISqrtB(k, mid, hi) ELSE ISqrtB(k, lo, mid - 1)

(* floor of the square root of k >= 0 *)
ISqrt(k) == ISqrtB(k, 0, Min2(k, 46340))

(* np.sqrt of a fixed-point number *)
FPSqrt(x) == ISqrt(x * FP)

(* Python 3 round(num/den) for num >= 0, den > 0: to nearest, ties to even *)
RoundHalfEven(num, den) ==
  LET q == num \div den
      r == num % den
  IN IF 2 * r < den THEN q
     ELSE IF 2 * r > den THEN q + 1
     ELSE IF q % 2 = 0 THEN q ELSE q + 1

----------------------------------------------------------------------------
(* DriftDetector base class (not among the source files: from spec.md 4.1) *)

DriftDetector_update_total(ts) == ts + 1

DriftDetector_update_since(ssr) == ssr + 1

DriftDetector_reset_since == 0

DriftDetector_reset_state == None

NoCall == [op |-> "init", arg |-> <<>>, in_drift |-> FALSE, in_build |-> FALSE,
           evaluated |-> FALSE, detected |-> FALSE]

----------------------------------------------------------------------------
(* EDDM *)

(* n_threshold values of the model (the default is 30) *)
NThresholds == {1, 2, 3}

(* the thresholds in hundredths: the defaults 0.95 and 0.9, and a warning
   threshold of 1 *)
EDDM_config ==
  [n_threshold : NThresholds, warning_thresh : {95, 100}, drift_thresh : {90}]

(* _initialize_retraining_recs: [None, None], None written -1 *)
EDDM_initialize_retraining_recs == <<-1, -1>>

(* the private fields as __init__ and reset set them *)
EDDM_fields ==
  [n_errors |-> 0, index_error_curr |-> 0, index_error_last |-> 0,
   dist_mean |-> 0, dist_std |-> 0, max_numerator |-> 0,
   test_statistic |-> NaN, retraining_recs |-> EDDM_initialize_retraining_recs]

(* total_samples after update's super().update() *)
EDDM_total_after_update(ts) == DriftDetector_update_total(ts)

(* update without the implicit reset *)
EDDM_since_never_reset(ds, ssr) == DriftDetector_update_since(ssr)

(* samples_since_reset after update's implicit reset and super().update() *)
EDDM_since_after_update(ds, ssr) ==
  DriftDetector_update_since(IF ds = "drift" THEN DriftDetector_reset_since ELSE ssr)

(* update that keeps the drift state it was called in *)
EDDM_state_kept(ds) == ds

(* drift_state once update's implicit reset has run *)
EDDM_state_after_implicit_reset(ds) ==
  IF ds = "drift" THEN DriftDetector_reset_state ELSE ds

(* curr_numerator *)
EDDM_curr_numerator(e) == e.dist_mean + 2 * e.dist_std

(* the comparison of the test statistic num / mx with the thresholds, which
   are hundredths; with mx = 0 the statistic is NaN and no comparison holds *)
EDDM_threshold_state(num, mx, c) ==
  IF mx /= 0 /\ num * 100 <= c.drift_thresh * mx THEN "drift"
  ELSE IF mx /= 0 /\ num * 100 <= c.warning_thresh * mx THEN "warning"
  ELSE None

(* an update that tests however few errors it has seen *)
EDDM_always_past_burn_in(e, c) == TRUE

(* the burn-in test: the update goes on only with n_threshold errors *)
EDDM_past_burn_in(e, c) == e.n_errors >= c.n_threshold

(* _increment_retraining_recs *)
EDDM_increment_retraining_recs(recs, ds, ts) ==
  LET r0 == IF ds = "warning" /\ recs[1] = -1 THEN <<ts - 1, recs[2]>> ELSE recs
  IN IF ds = "drift"
     THEN <<IF r0[1] = -1 THEN ts - 1 ELSE r0[1], ts - 1>>
     ELSE r0

(* the statistics of an update that found a new error: n_errors, the two
   error indices, the running mean and "standard deviation" of the distance *)
EDDM_error_stats(e, ssr) ==
  LET n    == e.n_errors + 1
      curr == ssr - 1
      dist == (curr - e.index_error_curr) * FP
      prev == e.dist_mean
      mean == prev + (dist - prev) \div n
      acc  == e.dist_std + ((dist - mean) * (dist - prev)) \div FP
  IN [e EXCEPT !.n_errors = n,
               !.index_error_last = e.index_error_curr,
               !.index_error_curr = curr,
               !.dist_mean = mean,
               !.dist_std = FPSqrt(acc \div n)]

(* the part of update after the burn-in test: maximum, test statistic *)
EDDM_test(e) ==
  LET num == EDDM_curr_numerator(e)
      mx  == IF e.max_numerator < num THEN num ELSE e.max_numerator
  IN [e EXCEPT !.max_numerator = mx,
               !.test_statistic = IF mx = 0 THEN NaN ELSE (num * FP) \div mx]

EDDM_update(y_pred, y_true) ==
  /\ det = "EDDM"
  /\ raised = "none"
  /\ total_samples < MaxSamples
  /\ LET in_drift == drift_state = "drift"
         e0  == IF in_drift THEN EDDM_fields ELSE ed
         ds0 == EDDM_state_after_implicit_reset(drift_state)
         ts1 == EDDM_total_after_update(total_samples)
         ssr1 == EDDM_since_after_update(drift_state, samples_since_reset)
         e1  == EDDM_error_stats(e0, ssr1)
         e2  == EDDM_test(e1)
         ds2 == EDDM_threshold_state(EDDM_curr_numerator(e1), e2.max_numerator, cfg)
         tested == y_pred /= y_true /\ EDDM_past_burn_in(e1, cfg)
     IN /\ total_samples' = ts1
        /\ samples_since_reset' = ssr1
        /\ drift_state' = IF tested THEN ds2 ELSE ds0
        /\ ed' = IF y_pred = y_true THEN e0
                 ELSE IF ~tested THEN e1
                 ELSE IF ds2 = None THEN e2
                 ELSE [e2 EXCEPT !.retraining_recs =
                         EDDM_increment_retraining_recs(e2.retraining_recs, ds2, ts1)]
        /\ call' = [op |-> "update", arg |-> <<y_pred, y_true>>, in_drift |-> in_drift,
                    in_build |-> FALSE, evaluated |-> tested,
                    detected |-> tested /\ ds2 = "drift"]
        /\ warn_start' = IF tested
                          THEN IF ds2 = None THEN -1
                               ELSE IF ds2 = "warning" /\ ds0 /= "warning" THEN ts1 - 1
                               ELSE IF ds0 = "warning" THEN warn_start ELSE -1
                          ELSE IF in_drift THEN -1 ELSE warn_start
  /\ UNCHANGED <<det, raised, cfg, pc, ph, resets, recent, dv>>

EDDM_reset ==
  /\ det = "EDDM"
  /\ raised = "none"
  /\ resets < MaxResets
  /\ resets' = resets + 1
  /\ samples_since_reset' = DriftDetector_reset_since
  /\ drift_state' = DriftDetector_reset_state
  /\ ed' = EDDM_fields
  /\ warn_start' = -1
  /\ call' = [NoCall EXCEPT !.op = "reset", !.in_drift = drift_state = "drift"]
  /\ UNCHANGED <<det, total_samples, raised, cfg, pc, ph, recent, dv>>

----------------------------------------------------------------------------
(* PCACD: data frames, scaler and projection.                               *)
(* An observation is one row, a sequence of feature values; a window is a   *)
(* sequence of rows of one width.                                           *)

(* window_size of the model: the smallest for which the standard deviation
   and the PCA of a window are defined *)
WindowSizes == {2}

(* the values a feature takes *)
FeatureValues == {0, 1}

(* numbers of features an observation may have *)
Dims == {1, 2}

(* the observations a call may be given: the first feature takes every
   value, the second is its mirror image *)
Observations ==
  {<<v>> : v \in FeatureValues} \cup {<<v, 1 - v>> : v \in FeatureValues}

(* sample_period in hundredths (default 0.05) *)
SamplePeriods == {5, 100}

PCACD_config ==
  [window_size : WindowSizes, sample_period : SamplePeriods,
   online_scaling : BOOLEAN, density : {"kde", "histograms"},
   divergence_metric : {"kl", "intersection", "llh"}, track_state : BOOLEAN]

(* self.step *)
PCACD_step(c) == Min2(100, RoundHalfEven(c.sample_period * c.window_size, 100))

(* self.bins *)
PCACD_bins(c) == ISqrt(c.window_size)

Width(df) == IF df = <<>> THEN 0 ELSE Len(df[1])

Pad(row, w) == [j \in 1..w |-> IF j <= Len(row) THEN row[j] ELSE NaN]

(* DataFrame.append of one row: columns are united, missing cells are NaN *)
df_append(df, row) ==
  LET w == Max2(Width(df), Len(row))
  IN [i \in 1..Len(df) |-> Pad(df[i], w)] \o <<Pad(row, w)>>

(* DataFrame.iloc[1:, :] *)
df_drop_first(df) == IF df = <<>> THEN <<>> ELSE Tail(df)

Column(df, j) == [i \in 1..Len(df) |-> df[i][j]]

HasNaN(df) == \E i \in 1..Len(df) : \E j \in 1..Len(df[i]) : df[i][j] = NaN

RECURSIVE SumSq(_)
SumSq(s) == IF s = <<>> THEN 0 ELSE Head(s) * Head(s) + SumSq(Tail(s))

NotNaN(x) == x /= NaN

(* Len(v)^2 times the population variance of v *)
Var2(v) == Len(v) * SumSq(v) - SumSeq(v) * SumSeq(v)

(* StandardScaler.fit: per column, the count and the sum of the cells that
   are not NaN.  The scaler is modelled by its centring: a cell x becomes
   cnt * x - sum, that is (x - mean) in units of 1/cnt; the division by the
   standard deviation is left out. *)
scaler_fit(df) ==
  [fitted |-> TRUE,
   n_features |-> Width(df),
   cnt |-> [j \in 1..Width(df) |-> Len(SelectSeq(Column(df, j), NotNaN))],
   sum |-> [j \in 1..Width(df) |-> SumSeq(SelectSeq(Column(df, j), NotNaN))]]

scaler_unfitted == [fitted |-> FALSE, n_features |-> 0, cnt |-> <<>>, sum |-> <<>>]

(* transform raises ValueError on another number of features *)
scaler_accepts(sc, w) == sc.fitted /\ sc.n_features = w

scaler_transform_row(sc, row) ==
  [j \in 1..Len(row) |->
     IF row[j] = NaN \/ sc.cnt[j] = 0 THEN NaN ELSE sc.cnt[j] * row[j] - sc.sum[j]]

scaler_transform(sc, df) == [i \in 1..Len(df) |-> scaler_transform_row(sc, df[i])]

scaler_inverse_row(sc, row) ==
  [j \in 1..Len(row) |->
     IF row[j] = NaN \/ sc.cnt[j] = 0 THEN NaN ELSE (row[j] + sc.sum[j]) \div sc.cnt[j]]

scaler_inverse_transform(sc, df) == [i \in 1..Len(df) |-> scaler_inverse_row(sc, df[i])]

(* PCA(ev_threshold).fit: the model keeps the components on the feature axes,
   ordered by decreasing variance, and as many of them as reach ev_threshold
   (99 hundredths) of the total variance; a projected cell is n * x - sum,
   that is (x - mean) in units of 1/n. *)
RECURSIVE pca_order(_, _)
pca_order(df, left) ==
  IF left = {} THEN <<>>
  ELSE LET best == CHOOSE j \in left : \A k \in left :
                     \/ Var2(Column(df, j)) > Var2(Column(df, k))
                     \/ Var2(Column(df, j)) = Var2(Column(df, k)) /\ j <= k
       IN <<best>> \o pca_order(df, left \ {best})

(* the number of components kept: one more than the number of cumulated
   variance ratios that are <= ev_threshold (1 when the total variance is 0
   and the ratios are NaN) *)
pca_count(vs) ==
  IF SumSeq(vs) = 0 THEN 1
  ELSE 1 + Cardinality({k \in 1..Len(vs) :
                          100 * SumSeq(SubSeq(vs, 1, k)) <= 99 * SumSeq(vs)})

(* fit raises ValueError on a NaN cell *)
pca_fit(df) ==
  LET order == pca_order(df, 1..Width(df))
      k == pca_count([i \in 1..Len(order) |-> Var2(Column(df, order[i]))])
  IN [fitted |-> TRUE,
      n_features |-> Width(df),
      n |-> Len(df),
      sum |-> [j \in 1..Width(df) |-> SumSeq(Column(df, j))],
      components |-> SubSeq(order, 1, k)]

pca_unfitted == [fitted |-> FALSE, n_features |-> 0, n |-> 0, sum |-> <<>>,
                 components |-> <<>>]

(* transform raises on an unfitted model, another number of features or NaN *)
pca_accepts(pca, df) == pca.fitted /\ pca.n_features = Width(df) /\ ~HasNaN(df)

pca_transform_row(pca, row) ==
  [i \in 1..Len(pca.components) |->
     pca.n * row[pca.components[i]] - pca.sum[pca.components[i]]]

pca_transform(pca, df) == [i \in 1..Len(df) |-> pca_transform_row(pca, df[i])]

----------------------------------------------------------------------------
(* PCACD: density estimates and divergences *)

(* float('inf'); NaN and Inf are larger than every number of the model *)
Inf == 99998

MinSeq(s) == CHOOSE x \in {s[i] : i \in 1..Len(s)} : \A i \in 1..Len(s) : x <= s[i]

MaxOfSeq(s) == CHOOSE x \in {s[i] : i \in 1..Len(s)} : \A i \in 1..Len(s) : x >= s[i]

(* _epanechnikov_kernel((x - x_j) / bandwidth) with bandwidth^2 = h2 / n2:
   (3/4)(1 - u^2) for |u| <= 1 and 0 otherwise, in units of 3 / (4 * h2) *)
epanechnikov_kernel(x, x_j, h2, n2) ==
  IF h2 > 0 /\ n2 * (x - x_j) * (x - x_j) <= h2
  THEN h2 - n2 * (x - x_j) * (x - x_j)
  ELSE 0

(* what _build_kde_track raises: statistics.stdev needs two values, and a
   zero bandwidth divides by zero *)
kde_error(values) ==
  IF Len(values) < 2 THEN "StatisticsError"
  ELSE IF Var2(values) = 0 THEN "ZeroDivisionError"
  ELSE "none"

(* _build_kde_track: the density at each value of the batch itself; the
   bandwidth is modelled by the standard deviation of the batch *)
build_kde_track(values) ==
  LET n == Len(values)
      h2 == Var2(values)
  IN [point |-> values,
      density |-> [i \in 1..n |->
         SumSeq([j \in 1..n |-> epanechnikov_kernel(values[i], values[j], h2, n * n)])]]

(* the range np.histogram lays its bins over, in units of 1/2: [min, max] of
   the batch, widened by 1/2 on each side when min = max *)
histogram_range(values) ==
  LET mn == MinSeq(values)
      mx == MaxOfSeq(values)
  IN IF mn = mx THEN <<2 * mn - 1, 2 * mx + 1>> ELSE <<2 * mn, 2 * mx>>

(* np.histogram(values, bins, density=True): equal-width bins over
   [min, max] (widened by 1/2 on each side when min = max), the last bin
   closed; the density, count / (n * width), is a fixed-point number *)
build_histograms(values, bins) ==
  LET n  == Len(values)
      lo2 == histogram_range(values)[1]
      hi2 == histogram_range(values)[2]
      bin(x) == Min2(bins - 1, ((2 * x - lo2) * bins) \div (hi2 - lo2)) + 1
      count(b) == Cardinality({i \in 1..n : bin(values[i]) = b})
  IN [point |-> values,
      density |-> [b \in 1..bins |-> (count(b) * bins * 2 * FP) \div (n * (hi2 - lo2))]]

(* the error the configured density estimator raises on a batch *)
density_error(c, values) == IF c.density = "kde" THEN kde_error(values) ELSE "none"

build_density(c, values) ==
  IF c.density = "kde" THEN build_kde_track(values)
  ELSE build_histograms(values, PCACD_bins(c))

(* floor of log2(x), x >= 1: the model's logarithm *)
RECURSIVE Lg(_)
Lg(x) == IF x <= 1 THEN 0 ELSE 1 + Lg(x \div 2)

(* kl_divergence(p, q, d_type="discrete") (not among the source files: from
   spec.md 4.3): sum of p_i * log(p_i / q_i), zero entries contribute 0 *)
kl_divergence(p, q) ==
  SumSeq([i \in 1..Min2(Len(p), Len(q)) |->
            IF p[i] > 0 /\ q[i] > 0 THEN p[i] * (Lg(p[i]) - Lg(q[i])) ELSE 0])

(* the "kl" score of one component, as update computes it *)
kl_symmetric(p, q) == Max2(kl_divergence(p, q), kl_divergence(q, p))

(* the area summed without abs *)
intersection_area_signed(values_p, values_q) ==
  SumSeq([i \in 1..Min2(Len(values_p), Len(values_q)) |->
            values_p[i] - values_q[i]])

(* _intersection_area: (1/2) * sum(|x - y|) over zip(p, q), in units of 1/2 *)
intersection_area(values_p, values_q) ==
  SumSeq([i \in 1..Min2(Len(values_p), Len(values_q)) |->
            Abs(values_p[i] - values_q[i])])

(* sum of np.log of the kernel sums at the points ys; -Inf once a sum is 0 *)
llh_sum(ys, values_p, h2, n2) ==
  LET S(y) == SumSeq([j \in 1..Len(values_p) |->
                        epanechnikov_kernel(y, values_p[j], h2, n2)])
  IN IF \E i \in 1..Len(ys) : S(ys[i]) = 0 THEN -Inf
     ELSE SumSeq([i \in 1..Len(ys) |-> Lg(S(ys[i]))])

(* what _log_likelihood raises *)
llh_error(values_p, values_q) ==
  IF Len(values_q) < 2 THEN "StatisticsError" ELSE "none"

(* _log_likelihood: |llh_q / len(q) - llh_p / len(p)|, in units of
   1 / (len(p) * len(q)); the bandwidth comes from values_q *)
log_likelihood(values_p, values_q) ==
  LET h2 == Var2(values_q)
      n2 == Len(values_q) * Len(values_q)
      llh_q == llh_sum(values_q, values_p, h2, n2)
      llh_p == llh_sum(values_p, values_p, h2, n2)
  IN IF llh_q = -Inf /\ llh_p = -Inf THEN NaN
     ELSE IF llh_q = -Inf \/ llh_p = -Inf THEN Inf
     ELSE Abs(llh_q * Len(values_p) - llh_p * Len(values_q))

(* Python's max(list): the first element that no later one is greater than;
   every comparison with NaN is false *)
RECURSIVE PyMaxFrom(_, _)
PyMaxFrom(m, s) ==
  IF s = <<>> THEN m
  ELSE PyMaxFrom(IF m /= NaN /\ Head(s) /= NaN /\ Head(s) > m THEN Head(s) ELSE m,
                 Tail(s))

PyMax(s) == PyMaxFrom(Head(s), Tail(s))

(* the divergence of component i between the two density estimates *)
change_score_of(c, dref, dtest) ==
  IF c.divergence_metric = "kl" THEN kl_symmetric(dref.density, dtest.density)
  ELSE IF c.divergence_metric = "intersection"
       THEN intersection_area(dref.density, dtest.density)
  ELSE log_likelihood(dref.point, dtest.point)

(* change_scores, then change_score = max(change_scores) *)
change_scores(c, k, dref, dtest) ==
  [i \in 1..k |-> change_score_of(c, dref[i], dtest[i])]

(* the score of the first component alone *)
change_score_first(scores) == scores[1]

change_score_max(scores) == PyMax(scores)

----------------------------------------------------------------------------
(* The internal monitor, PageHinkley (not among the source files: from the
   interface of spec.md 2 and 6).  It takes one score per update and shows a
   state; which state follows from a score is left open (outcome). *)

PH_fields == [drift_state |-> None, n |-> 0, last |-> NaN]

PH_update(m, score, outcome) ==
  [drift_state |-> outcome, n |-> (IF m.drift_state = "drift" THEN 0 ELSE m.n) + 1,
   last |-> score]

PH_states == {None, "warning", "drift"}

----------------------------------------------------------------------------
(* PCACD *)

(* the private fields as __init__ sets them (None: unfitted, num_pcs 0) *)
PCACD_fields ==
  [build |-> TRUE,                     \* _build_reference_and_test
   reference_window |-> <<>>, test_window |-> <<>>,
   scaler |-> scaler_unfitted, pca |-> pca_unfitted, num_pcs |-> 0,
   reference_pca_projection |-> <<>>, test_pca_projection |-> <<>>,
   density_reference |-> <<>>, density_test |-> <<>>,
   drift_tracker |-> 0]                \* rows of _drift_tracker

(* update without its closing super().update() *)
PCACD_total_not_counted(ts) == ts

(* total_samples after update's closing super().update() *)
PCACD_total_after_update(ts) == DriftDetector_update_total(ts)

(* samples_since_reset after update's closing super().update() *)
PCACD_since_after_update(ssr) == DriftDetector_update_since(ssr)

(* the reference window that replaces the old one after drift: the test
   window, inverse-transformed when online scaling is on *)
PCACD_promoted_reference(p, c) ==
  IF c.online_scaling THEN scaler_inverse_transform(p.scaler, p.test_window)
  ELSE p.test_window

(* the building step without the self.reset() of the drift branch *)
PCACD_build_step_no_reset(p, m, ds, ssr, next_obs, c) ==
  IF ds /= None
  THEN [p |-> [p EXCEPT !.reference_window = PCACD_promoted_reference(p, c),
                        !.test_window = <<>>],
        m |-> PH_fields, ds |-> ds, ssr |-> ssr]
  ELSE IF Len(p.reference_window) < c.window_size
  THEN [p |-> [p EXCEPT !.reference_window = df_append(p.reference_window, next_obs)],
        m |-> m, ds |-> ds, ssr |-> ssr]
  ELSE IF Len(p.test_window) < c.window_size
  THEN [p |-> [p EXCEPT !.test_window = df_append(p.test_window, next_obs)],
        m |-> m, ds |-> ds, ssr |-> ssr]
  ELSE [p |-> p, m |-> m, ds |-> ds, ssr |-> ssr]

(* the first part of update while building: after drift the test window is
   promoted and everything reset; otherwise the observation goes to the
   reference window, else to the test window, while they are short *)
PCACD_build_step(p, m, ds, ssr, next_obs, c) ==
  IF ds /= None
  THEN [p |-> [p EXCEPT !.reference_window = PCACD_promoted_reference(p, c),
                        !.test_window = <<>>],
        m |-> PH_fields, ds |-> DriftDetector_reset_state,
        ssr |-> DriftDetector_reset_since]
  ELSE IF Len(p.reference_window) < c.window_size
  THEN [p |-> [p EXCEPT !.reference_window = df_append(p.reference_window, next_obs)],
        m |-> m, ds |-> ds, ssr |-> ssr]
  ELSE IF Len(p.test_window) < c.window_size
  THEN [p |-> [p EXCEPT !.test_window = df_append(p.test_window, next_obs)],
        m |-> m, ds |-> ds, ssr |-> ssr]
  ELSE [p |-> p, m |-> m, ds |-> ds, ssr |-> ssr]

(* the densities of the first k components of proj, written one by one over
   old; the first component whose estimate raises ends the loop *)
density_fill(c, old, proj, k) ==
  LET bad == {i \in 1..k : density_error(c, Column(proj, i)) /= "none"}
      f == IF bad = {} THEN k + 1 ELSE CHOOSE i \in bad : \A j \in bad : i <= j
  IN [dens |-> [i \in 1..Max2(Len(old), f - 1) |->
                  IF i < f THEN build_density(c, Column(proj, i)) ELSE old[i]],
      err |-> IF bad = {} THEN "none" ELSE density_error(c, Column(proj, f))]

(* the second part of update while building, once the test window is full:
   leave the building phase, fit scaler and PCA on the reference window,
   project both windows, estimate the reference densities *)
PCACD_fit(p, c) ==
  LET p1 == [p EXCEPT !.build = FALSE]
      sc == scaler_fit(p.reference_window)
      p2 == IF c.online_scaling
            THEN [p1 EXCEPT !.scaler = sc,
                            !.reference_window = scaler_transform(sc, p.reference_window)]
            ELSE p1
      p3 == IF c.online_scaling
            THEN [p2 EXCEPT !.test_window = scaler_transform(sc, p.test_window)]
            ELSE p2
      p4 == [p3 EXCEPT !.pca = pca_unfitted]
      pca == pca_fit(p3.reference_window)
      p5 == [p3 EXCEPT !.pca = pca, !.num_pcs = Len(pca.components),
                       !.reference_pca_projection = pca_transform(pca, p3.reference_window)]
      df == density_fill(c, p5.density_reference, p5.reference_pca_projection, p5.num_pcs)
      p6 == [p5 EXCEPT !.density_reference = df.dens]
  IN IF c.online_scaling /\ ~scaler_accepts(sc, Width(p.test_window))
     THEN [p |-> p2, err |-> "ValueError"]
     ELSE IF HasNaN(p3.reference_window)
     THEN [p |-> p4, err |-> "ValueError"]
     ELSE IF df.err /= "none"
     THEN [p |-> p6, err |-> df.err]
     ELSE IF ~pca_accepts(pca, p3.test_window)
     THEN [p |-> p6, err |-> "ValueError"]
     ELSE [p |-> [p6 EXCEPT !.test_pca_projection = pca_transform(pca, p3.test_window)],
           err |-> "none"]

(* a test window that grows instead of sliding *)
PCACD_slide_no_drop(df, row) == df_append(df, row)

(* the sliding test window: oldest row dropped, observation appended *)
PCACD_slide(df, row) == df_append(df_drop_first(df), row)

(* a cadence that ignores step *)
PCACD_evaluates_every_update(ts, step) == ts /= 0

(* whether a monitoring update computes the change score; step 0 makes the
   modulo raise *)
PCACD_evaluates(ts, step) == (ts % step) = 0 /\ ts /= 0

(* the evaluation: test densities, change score, monitor, drift *)
PCACD_evaluate(p, m, ds, c, outcome) ==
  LET df == density_fill(c, <<>>, p.test_pca_projection, p.num_pcs)
      p1 == [p EXCEPT !.density_test = df.dens]
      lerr == IF c.divergence_metric = "llh"
              THEN llh_error(p.density_reference[1].point, df.dens[1].point)
              ELSE "none"
      score == change_score_max(
                 change_scores(c, p.num_pcs, p.density_reference, df.dens))
      m1 == PH_update(m, score, outcome)
  IN IF df.err /= "none" THEN [p |-> p1, m |-> m, ds |-> ds, err |-> df.err, fed |-> FALSE]
     ELSE IF lerr /= "none" THEN [p |-> p1, m |-> m, ds |-> ds, err |-> lerr, fed |-> FALSE]
     ELSE IF m1.drift_state /= None
     THEN [p |-> [p1 EXCEPT !.build = TRUE,
                            !.drift_tracker = IF c.track_state THEN @ + 1 ELSE @],
           m |-> m1, ds |-> "drift", err |-> "none", fed |-> TRUE]
     ELSE [p |-> p1, m |-> m1, ds |-> ds, err |-> "none", fed |-> TRUE]

(* a monitoring update that slides the reference window along with the
   test window *)
PCACD_monitor_step_sliding_both(p, m, ds, ts, next_obs, c, outcome) ==
  [p |-> [p EXCEPT !.reference_window = PCACD_slide(p.reference_window, next_obs),
                   !.test_window = PCACD_slide(p.test_window, next_obs)],
   m |-> m, ds |-> ds, err |-> "none", fed |-> FALSE]

(* update in the monitoring phase, up to the closing super().update() *)
PCACD_monitor_step(p, m, ds, ts, next_obs, c, outcome) ==
  LET obs == IF c.online_scaling THEN scaler_transform_row(p.scaler, next_obs)
             ELSE next_obs
      p1 == [p EXCEPT !.test_window = PCACD_slide(p.test_window, obs)]
      p2 == [p1 EXCEPT !.test_pca_projection =
                         df_drop_first(p.test_pca_projection)
                           \o <<pca_transform_row(p.pca, obs)>>]
      ev == PCACD_evaluate(p2, m, ds, c, outcome)
  IN IF c.online_scaling /\ ~scaler_accepts(p.scaler, Len(next_obs))
     THEN [p |-> p, m |-> m, ds |-> ds, err |-> "ValueError", fed |-> FALSE]
     ELSE IF ~pca_accepts(p.pca, <<obs>>)
     THEN [p |-> p1, m |-> m, ds |-> ds, err |-> "ValueError", fed |-> FALSE]
     ELSE IF PCACD_step(c) = 0
     THEN [p |-> p2, m |-> m, ds |-> ds, err |-> "ZeroDivisionError", fed |-> FALSE]
     ELSE IF PCACD_evaluates(ts, PCACD_step(c)) THEN ev
     ELSE [p |-> p2, m |-> m, ds |-> ds, err |-> "none", fed |-> FALSE]

(* what one call of update does to the fields, up to its return or raise *)
PCACD_update_result(next_obs, outcome) ==
  IF pc.build
  THEN LET b == PCACD_build_step(pc, ph, drift_state, samples_since_reset, next_obs, cfg)
           fit == IF Len(b.p.test_window) = cfg.window_size
                  THEN PCACD_fit(b.p, cfg) ELSE [p |-> b.p, err |-> "none"]
       IN [p |-> fit.p, m |-> b.m, ds |-> b.ds, ssr |-> b.ssr, err |-> fit.err,
           fed |-> FALSE]
  ELSE LET mon == PCACD_monitor_step(pc, ph, drift_state, total_samples, next_obs, cfg,
                                     outcome)
       IN [p |-> mon.p, m |-> mon.m, ds |-> mon.ds, ssr |-> samples_since_reset,
           err |-> mon.err, fed |-> mon.fed]

(* the monitor's answer is an input of the call only when it is asked *)
PCACD_outcomes ==
  IF ~pc.build /\ PCACD_step(cfg) /= 0 /\ PCACD_evaluates(total_samples, PCACD_step(cfg))
  THEN PH_states ELSE {None}

PCACD_update(next_obs, outcome) ==
  /\ det = "PCACD"
  /\ raised = "none"
  /\ total_samples < MaxSamples
  /\ outcome \in PCACD_outcomes
  /\ \E r \in {PCACD_update_result(next_obs, outcome)} :
        /\ pc' = r.p
        /\ ph' = r.m
        /\ drift_state' = r.ds
        /\ raised' = r.err
        /\ total_samples' = IF r.err = "none"
                            THEN PCACD_total_after_update(total_samples)
                            ELSE total_samples
        /\ samples_since_reset' = IF r.err = "none"
                                  THEN PCACD_since_after_update(r.ssr) ELSE r.ssr
        /\ call' = [op |-> "update", arg |-> next_obs,
                    in_drift |-> drift_state = "drift", in_build |-> pc.build,
                    evaluated |-> r.fed,
                    detected |-> r.fed /\ r.m.drift_state /= None]
  /\ recent' = IF Len(recent) < cfg.window_size THEN Append(recent, next_obs)
               ELSE Append(Tail(recent), next_obs)
  /\ UNCHANGED <<det, cfg, ed, resets, warn_start, dv>>

(* PCACD defines no reset of its own: reset() is DriftDetector.reset *)
PCACD_reset ==
  /\ det = "PCACD"
  /\ raised = "none"
  /\ resets < MaxResets
  /\ resets' = resets + 1
  /\ samples_since_reset' = DriftDetector_reset_since
  /\ drift_state' = DriftDetector_reset_state
  /\ call' = [NoCall EXCEPT !.op = "reset", !.in_drift = drift_state = "drift",
                            !.in_build = pc.build]
  /\ UNCHANGED <<det, total_samples, raised, cfg, ed, pc, ph, recent, warn_start, dv>>

----------------------------------------------------------------------------
(* The specification *)

Init ==
  /\ det \in {"PCACD", "EDDM"}
  /\ cfg \in IF det = "PCACD" THEN PCACD_config ELSE EDDM_config
  /\ total_samples = 0
  /\ samples_since_reset = 0
  /\ drift_state = None
  /\ raised = "none"
  /\ call = NoCall
  /\ ed = EDDM_fields
  /\ pc = PCACD_fields
  /\ ph = PH_fields
  /\ resets = 0
  /\ recent = <<>>
  /\ warn_start = -1
  /\ dv = <<>>

Next ==
  \/ \E next_obs \in Observations, outcome \in PH_states : PCACD_update(next_obs, outcome)
  \/ PCACD_reset
  \/ \E y_pred \in {0, 1} : EDDM_update(y_pred, 1)
  \/ EDDM_reset

Spec == Init /\ [][Next]_vars

----------------------------------------------------------------------------
(* The divergence functions on their own: two density vectors of one length *)

MaxLen == 2

MaxDensity == 3

DensityVectors(n) == [1..n -> 0..MaxDensity]

Div_fresh(p, q) == [p |-> p, q |-> q, done |-> FALSE,
                    area_pq |-> 0, area_qp |-> 0, kl_pq |-> 0, kl_qp |-> 0]

InitDiv ==
  /\ det = "DIV"
  /\ cfg = <<>>
  /\ total_samples = 0
  /\ samples_since_reset = 0
  /\ drift_state = None
  /\ raised = "none"
  /\ call = NoCall
  /\ ed = EDDM_fields
  /\ pc = PCACD_fields
  /\ ph = PH_fields
  /\ resets = 0
  /\ recent = <<>>
  /\ warn_start = -1
  /\ \E n \in 1..MaxLen : \E p \in DensityVectors(n), q \in DensityVectors(n) :
       dv = Div_fresh(p, q)

(* the scores of update's "intersection" and "kl" branches for reference
   density p and test density q, and for the two swapped *)
Div_score ==
  /\ det = "DIV"
  /\ ~dv.done
  /\ dv' = [dv EXCEPT !.done = TRUE,
                      !.area_pq = intersection_area(dv.p, dv.q),
                      !.area_qp = intersection_area(dv.q, dv.p),
                      !.kl_pq = kl_symmetric(dv.p, dv.q),
                      !.kl_qp = kl_symmetric(dv.q, dv.p)]
  /\ UNCHANGED <<det, total_samples, samples_since_reset, drift_state, raised, call,
                 cfg, ed, pc, ph, resets, recent, warn_start>>

NextDiv == Div_score

SpecDiv == InitDiv /\ [][NextDiv]_vars

----------------------------------------------------------------------------
(* The first evaluation on windows of two independent features: the detector
   as the update that completes the test window leaves it, for every choice
   of the rows of the two windows, followed by the first monitoring update. *)

ScoreValues == {0, 1, 2}

ScoreRows == {<<a, b>> : a \in ScoreValues, b \in ScoreValues}

(* sample_period 1.0, so that the first monitoring update evaluates *)
ScoreConfigs == {c \in PCACD_config : c.sample_period = 100 /\ ~c.track_state}

(* the fields after the building phase on the given windows *)
PCACD_built(reference, test, c) ==
  PCACD_fit([PCACD_fields EXCEPT !.reference_window = reference,
                                 !.test_window = test], c)

InitScore ==
  /\ det = "PCACD"
  /\ cfg \in ScoreConfigs
  /\ \E r \in ScoreRows, t1 \in ScoreRows, t2 \in ScoreRows :
       \E fit \in {PCACD_built(<<<<0, 0>>, r>>, <<t1, t2>>, cfg)} :
          /\ fit.err = "none"
          /\ pc = fit.p
          /\ recent = <<t1, t2>>
          /\ call = [op |-> "update", arg |-> t2, in_drift |-> FALSE,
                     in_build |-> TRUE, evaluated |-> FALSE, detected |-> FALSE]
  /\ total_samples = 2 * cfg.window_size
  /\ samples_since_reset = 2 * cfg.window_size
  /\ drift_state = None
  /\ raised = "none"
  /\ ed = EDDM_fields
  /\ ph = PH_fields
  /\ resets = 0
  /\ warn_start = -1
  /\ dv = <<>>

(* the update that follows the building phase *)
PCACD_first_monitoring_update(next_obs, outcome) ==
  /\ total_samples = 2 * cfg.window_size
  /\ PCACD_update(next_obs, outcome)

NextScore ==
  \E next_obs \in ScoreRows, outcome \in PH_states :
     PCACD_first_monitoring_update(next_obs, outcome)

SpecScore == InitScore /\ [][NextScore]_vars

----------------------------------------------------------------------------
(* Properties *)

IsUpdate == call'.op = "update"

IsReset == call'.op = "reset"

Returned == raised' = "none"

Last(df) == df[Len(df)]

(* C1: every call of update that returns adds exactly 1 to total_samples, in
   every phase and drift state, for PCACD and for EDDM; a call that raises
   and a call of reset leave it as it is, so it never decreases. *)
C1_TotalSamples ==
  [][/\ (IsUpdate /\ Returned) => total_samples' = total_samples + 1
     /\ (IsUpdate /\ ~Returned) => total_samples' = total_samples
     /\ IsReset => total_samples' = total_samples]_vars

(* an update of PCACD that did the implicit reset after drift has returned *)
C1_Witness ==
  /\ det = "PCACD" /\ call.op = "update" /\ call.in_drift /\ raised = "none"
  /\ total_samples > 2 * cfg.window_size

(* C2: samples_since_reset becomes 0 only in reset(); an update that returns
   leaves it at 1 when it was called in drift state (the implicit reset) and
   one higher than before otherwise; an update that raises leaves it alone. *)
C2_SinceReset ==
  [][/\ IsReset => samples_since_reset' = 0
     /\ (IsUpdate /\ Returned /\ drift_state = "drift") => samples_since_reset' = 1
     /\ (IsUpdate /\ Returned /\ drift_state /= "drift")
          => samples_since_reset' = samples_since_reset + 1
     /\ (IsUpdate /\ ~Returned) => samples_since_reset' = samples_since_reset]_vars

(* an update of EDDM called in drift state, several samples after the last
   reset, has returned *)
C2_Witness ==
  /\ det = "EDDM" /\ call.op = "update" /\ call.in_drift
  /\ samples_since_reset = 1 /\ total_samples > 2

(* C3: drift is a one-shot signal.  An update called in drift state returns
   (no raise) with the detector reset first: the sample is the first since
   the reset, EDDM's statistics hold at most this one error, PCACD's monitor
   is reset.  drift_state is "drift" only after an update whose own
   evaluation detected drift. *)
C3_OneShot ==
  /\ (call.op = "update" /\ call.in_drift) =>
       /\ raised = "none"
       /\ samples_since_reset = 1
       /\ det = "EDDM" => ed.n_errors <= 1 /\ ed.index_error_last = 0
       /\ det = "PCACD" => ph = PH_fields /\ drift_state = None
  /\ drift_state = "drift" => call.op = "update" /\ call.detected

(* EDDM was updated in drift state with a correct prediction: nothing in
   that update could detect drift *)
C3_Witness ==
  /\ det = "EDDM" /\ call.op = "update" /\ call.in_drift /\ ~call.evaluated
  /\ drift_state = None

(* C4: an update of PCACD that starts in the building phase computes no
   density of the test window, leaves the monitor unfed and ends with
   drift_state None; a fresh detector is in that phase for its first
   2 * window_size updates, whose monitor therefore stays as constructed. *)
C4_BurnIn ==
  [][(det = "PCACD" /\ IsUpdate) =>
       /\ pc.build =>
            /\ pc'.density_test = pc.density_test
            /\ ph' = ph \/ (drift_state = "drift" /\ ph' = PH_fields)
            /\ drift_state' = None
       /\ total_samples < 2 * cfg.window_size =>
            /\ pc.build
            /\ ph' = PH_fields
            /\ pc'.density_test = <<>>]_vars

(* the update that completes the test window has fitted the models *)
C4_Witness ==
  /\ det = "PCACD" /\ call.op = "update" /\ call.in_build /\ raised = "none"
  /\ total_samples = 2 * cfg.window_size /\ ~pc.build /\ pc.pca.fitted

(* C5: while PCACD is in the monitoring phase both windows hold exactly
   window_size rows. *)
C5_WindowSize ==
  (det = "PCACD" /\ ~pc.build) =>
     /\ Len(pc.reference_window) = cfg.window_size
     /\ Len(pc.test_window) = cfg.window_size

(* a monitoring update has slid the test window and returned *)
C5_Witness ==
  /\ det = "PCACD" /\ call.op = "update" /\ ~call.in_build /\ raised = "none"
  /\ ~pc.build

(* C6: after reset() of PCACD the windows, the fitted scaler and projection,
   the density caches and the monitor are as constructed, and the base reset
   is done. *)
C6_ResetClears ==
  (det = "PCACD" /\ call.op = "reset") =>
     /\ pc.reference_window = <<>> /\ pc.test_window = <<>>
     /\ pc.pca = pca_unfitted /\ pc.scaler = scaler_unfitted
     /\ pc.density_reference = <<>> /\ pc.density_test = <<>>
     /\ ph = PH_fields
     /\ pc.build
     /\ samples_since_reset = 0 /\ drift_state = None

(* the observation as a window of the given scaler state holds it *)
HeldAs(next_obs, df) ==
  \/ Last(df) = Pad(next_obs, Width(df))
  \/ /\ cfg.online_scaling /\ scaler_accepts(pc.scaler, Len(next_obs))
     /\ Last(df) = scaler_transform_row(pc.scaler, next_obs)

(* C7: after every update of PCACD that returns, the observation is the
   newest row of the reference window or of the test window. *)
C7_Consumed ==
  (det = "PCACD" /\ call.op = "update" /\ raised = "none") =>
     \/ pc.reference_window /= <<>> /\ HeldAs(call.arg, pc.reference_window)
     \/ pc.test_window /= <<>> /\ HeldAs(call.arg, pc.test_window)

(* C8: an evaluation in which the monitor signals leaves drift_state "drift"
   and the building phase; the update that follows puts the former test
   window (inverse-transformed when online scaling is on), which holds the
   window_size most recent observations in order, into the reference window,
   empties the test window and resets drift_state, samples_since_reset and
   the monitor. *)
C8_DriftTransition ==
  [][(det = "PCACD" /\ IsUpdate) =>
       /\ (Returned /\ call'.detected) => drift_state' = "drift" /\ pc'.build
       /\ drift_state = "drift" =>
            /\ Returned
            /\ pc'.reference_window =
                 IF cfg.online_scaling
                 THEN scaler_inverse_transform(pc.scaler, pc.test_window)
                 ELSE pc.test_window
            /\ pc'.reference_window = recent
            /\ pc'.test_window = <<>>
            /\ drift_state' = None
            /\ samples_since_reset' = 1
            /\ ph' = PH_fields]_vars

(* the statement of C8 for the drifts that no call of reset() came before:
   there the promoted window is the window_size most recent observations *)
C8_BeforeAnyReset ==
  [][(det = "PCACD" /\ IsUpdate /\ drift_state = "drift" /\ resets = 0) =>
       /\ Returned
       /\ pc'.reference_window = recent
       /\ pc'.test_window = <<>>
       /\ drift_state' = None
       /\ samples_since_reset' = 1
       /\ ph' = PH_fields]_vars

(* C9: an update of PCACD whose observation has another number of features
   than the rows of the reference window raises and leaves both windows as
   they were. *)
C9_FailFast ==
  [][(/\ det = "PCACD" /\ IsUpdate
      /\ pc.reference_window /= <<>>
      /\ Len(call'.arg) /= Width(pc.reference_window)
      /\ drift_state /= "drift") =>
       /\ ~Returned
       /\ pc'.reference_window = pc.reference_window
       /\ pc'.test_window = pc.test_window]_vars

(* C10: the intersection area of two density vectors of one length, and the
   symmetric KL score of update, do not change when the vectors are swapped. *)
C10_Symmetry ==
  (det = "DIV" /\ dv.done) =>
     /\ dv.area_pq = dv.area_qp
     /\ dv.kl_pq = dv.kl_qp

(* two vectors whose two KL directions differ have been scored *)
C10_Witness ==
  /\ det = "DIV" /\ dv.done /\ dv.p /= dv.q /\ dv.area_pq > 0
  /\ kl_divergence(dv.p, dv.q) /= kl_divergence(dv.q, dv.p)

(* C11: every buffer of PCACD stays within a size fixed by window_size and
   the number of features: the windows and the projection buffers hold at
   most window_size rows, the density caches one entry per feature at most,
   and the log of monitor snapshots kept with track_state does not grow with
   the drift events (a snapshot is not retained once the next one is taken). *)
C11_BoundedState ==
  det = "PCACD" =>
     /\ Len(pc.reference_window) <= cfg.window_size
     /\ Len(pc.test_window) <= cfg.window_size
     /\ Len(pc.reference_pca_projection) <= cfg.window_size
     /\ Len(pc.test_pca_projection) <= cfg.window_size
     /\ \E d \in Dims : Len(pc.density_reference) <= d
     /\ \E d \in Dims : Len(pc.density_test) <= d
     /\ pc.drift_tracker <= 1

(* C12: while EDDM has seen fewer than n_threshold errors since the last
   reset, drift_state is None and _max_numerator is still 0. *)
C12_BurnIn ==
  (det = "EDDM" /\ ed.n_errors < cfg.n_threshold) =>
     /\ drift_state = None
     /\ ed.max_numerator = 0
     /\ ed.test_statistic = NaN

(* an error update inside the burn-in, whose numerator is already positive *)
C12_Witness ==
  /\ det = "EDDM" /\ call.op = "update" /\ call.arg = <<0, 1>>
  /\ ed.n_errors = 2 /\ cfg.n_threshold = 3
  /\ EDDM_curr_numerator(ed) > 0

(* C13: after an error update past the burn-in, drift_state is "drift"
   exactly when the ratio curr_numerator / _max_numerator is strictly below
   drift_thresh, and "warning" exactly when it is strictly below
   warning_thresh and not below drift_thresh. *)
C13_StrictThresholds ==
  (det = "EDDM" /\ call.op = "update" /\ call.evaluated) =>
     LET num == EDDM_curr_numerator(ed)
         mx  == ed.max_numerator
         below(t) == mx /= 0 /\ num * 100 < t * mx
     IN /\ drift_state = "drift" <=> below(cfg.drift_thresh)
        /\ drift_state = "warning" <=>
             (below(cfg.warning_thresh) /\ ~below(cfg.drift_thresh))

(* C14: an update of EDDM that takes drift_state from "warning" back to None
   leaves retraining_recs at [None, None]. *)
C14_RecsReset ==
  [][(det = "EDDM" /\ IsUpdate /\ drift_state = "warning" /\ drift_state' = None)
       => ed'.retraining_recs = EDDM_initialize_retraining_recs]_vars

(* C15: an index that an update of EDDM writes into retraining_recs is
   samples_since_reset - 1 of that update. *)
C15_RecsRelative ==
  [][(det = "EDDM" /\ IsUpdate) =>
       LET old == IF drift_state = "drift" THEN EDDM_initialize_retraining_recs
                  ELSE ed.retraining_recs
       IN \A k \in {1, 2} :
            ed'.retraining_recs[k] /= old[k]
              => ed'.retraining_recs[k] = samples_since_reset' - 1]_vars

(* C16: in drift state retraining_recs is [i, j], j the index of the drift
   update and i the index of the first warning update of the region that
   led to it, or j when no warning region led to it; the second entry is
   set only in drift state, and the first is never after the second. *)
C16_RecsShape ==
  det = "EDDM" =>
     /\ drift_state = "drift" =>
          ed.retraining_recs =
            <<IF warn_start >= 0 THEN warn_start ELSE total_samples - 1,
              total_samples - 1>>
     /\ ed.retraining_recs[2] /= -1 => drift_state = "drift"
     /\ (ed.retraining_recs[1] /= -1 /\ ed.retraining_recs[2] /= -1)
          => ed.retraining_recs[1] <= ed.retraining_recs[2]

(* C18: an update of PCACD in the monitoring phase that returns has
   recomputed the densities of the test window and fed the monitor, once,
   exactly when total_samples at its start is a non-zero multiple of step;
   otherwise the monitor and the test density cache are as before.  An
   update that raises has not fed the monitor. *)
C18_Cadence ==
  [][(det = "PCACD" /\ IsUpdate /\ ~pc.build) =>
       LET step == PCACD_step(cfg)
           due == step /= 0 /\ total_samples /= 0 /\ total_samples % step = 0
       IN /\ Returned =>
               /\ call'.evaluated <=> due
               /\ due =>
                    /\ ph' = PH_update(ph, ph'.last, ph'.drift_state)
                    /\ pc'.density_test =
                         [i \in 1..pc.num_pcs |->
                            build_density(cfg, Column(pc'.test_pca_projection, i))]
               /\ ~due => ph' = ph /\ pc'.density_test = pc.density_test
          /\ ~Returned => ph' = ph /\ ~call'.evaluated]_vars

(* the second evaluation of a monitoring epoch, step updates after the first *)
C18_Witness ==
  /\ det = "PCACD" /\ call.op = "update" /\ ~call.in_build /\ call.evaluated
  /\ raised = "none" /\ ph.n = 2 /\ PCACD_step(cfg) = 2

(* what the detector holds of the reference: the window, its projection, the
   fitted models and the density estimates *)
ReferenceParts ==
  <<pc.reference_window, pc.reference_pca_projection, pc.pca, pc.num_pcs,
    pc.scaler, pc.density_reference>>

(* an update that promotes the test window after drift *)
IsPromotion == pc.build /\ drift_state /= None

(* an update of the building phase that finds the test window complete or
   completes it: the rebuild *)
IsRebuild ==
  /\ pc.build /\ drift_state = None
  /\ Len(pc.reference_window) = cfg.window_size
  /\ Len(pc.test_window) >= cfg.window_size - 1

(* an update that appends to a reference window not yet full *)
IsReferenceAppend ==
  /\ pc.build /\ drift_state = None
  /\ Len(pc.reference_window) < cfg.window_size

Greater(a, b) == a /= NaN /\ b /= NaN /\ a > b

(* the divergences of the retained components between the reference and the
   test density estimates the detector holds *)
ScoresHeld ==
  [i \in 1..pc.num_pcs |->
     change_score_of(cfg, pc.density_reference[i], pc.density_test[i])]

(* C19: the score an evaluation passes to the monitor is the maximum of the
   per-component divergences between reference and test density estimates:
   it is one of them and none of them is greater. *)
C19_MaxReduction ==
  (det = "PCACD" /\ call.op = "update" /\ call.evaluated) =>
     /\ \E i \in 1..pc.num_pcs : ph.last = ScoresHeld[i]
     /\ \A i \in 1..pc.num_pcs : ~Greater(ScoresHeld[i], ph.last)

(* an evaluation over two components in which the second has the greater
   divergence and the first is not zero: the maximum is neither the first
   score nor the sum *)
C19_Witness ==
  /\ det = "PCACD" /\ call.op = "update" /\ call.evaluated /\ pc.num_pcs = 2
  /\ ScoresHeld[1] > 0 /\ ScoresHeld[2] > ScoresHeld[1] /\ ScoresHeld[2] < Inf
  /\ ph.last = ScoresHeld[2]

(* the rows as the test window stores them: scaled when online scaling is on *)
AsStored(rows) ==
  IF cfg.online_scaling THEN scaler_transform(pc.scaler, rows) ELSE rows

(* C21: after every update of PCACD that started in the monitoring phase and
   returned, the test window holds the window_size most recently received
   observations in arrival order, and the test projection buffer holds the
   projections of the rows of the test window, in the same order. *)
C21_SlidingWindow ==
  (det = "PCACD" /\ call.op = "update" /\ ~call.in_build /\ raised = "none") =>
     /\ Len(recent) = cfg.window_size
     /\ pc.test_window = AsStored(recent)
     /\ Len(pc.test_pca_projection) = cfg.window_size
     /\ pc.test_pca_projection = pca_transform(pc.pca, pc.test_window)

(* the statement of C21 for the detectors on which reset() was never called *)
C21_BeforeAnyReset ==
  (det = "PCACD" /\ call.op = "update" /\ ~call.in_build /\ raised = "none"
     /\ resets = 0) =>
     /\ pc.test_window = AsStored(recent)
     /\ pc.test_pca_projection = pca_transform(pc.pca, pc.test_window)

(* the projection part of C21, on every detector *)
C21_ProjectionSlides ==
  (det = "PCACD" /\ call.op = "update" /\ ~call.in_build /\ raised = "none") =>
     /\ Len(pc.test_window) = cfg.window_size
     /\ pc.test_pca_projection = pca_transform(pc.pca, pc.test_window)

(* C22: at every evaluation with the "kl" or "intersection" metric the two
   density vectors compared for a component are over the same support: with
   the kernel estimator entry i of both is the density at the same point,
   with histograms both are over the same bins. *)
C22_SameSupport ==
  (/\ det = "PCACD" /\ call.op = "update" /\ call.evaluated
   /\ cfg.divergence_metric \in {"kl", "intersection"}) =>
     \A i \in 1..pc.num_pcs :
        IF cfg.density = "kde"
        THEN pc.density_reference[i].point = pc.density_test[i].point
        ELSE histogram_range(pc.density_reference[i].point)
               = histogram_range(pc.density_test[i].point)

(* C23: step is an integer from 1 to 100, so the test
   total_samples % step of a monitoring update is defined: no update that
   starts in the monitoring phase finds step outside 1..100. *)
C23_StepDefined ==
  (det = "PCACD" /\ call.op = "update" /\ ~call.in_build) =>
     /\ PCACD_step(cfg) >= 1
     /\ PCACD_step(cfg) <= 100

(* C24: the drift_state of PCACD is None or "drift"; it is "drift" after an
   update only when that update's evaluation left the monitor in state
   "drift"; an evaluation that leaves the monitor in state "warning" leaves
   drift_state None and the detector in the monitoring phase. *)
C24_TopLevelState ==
  [][det = "PCACD" =>
       /\ drift_state' \in {None, "drift"}
       /\ (IsUpdate /\ drift_state' = "drift")
            => call'.evaluated /\ ph'.drift_state = "drift"
       /\ (IsUpdate /\ call'.evaluated /\ ph'.drift_state = "warning")
            => drift_state' = None /\ ~pc'.build]_vars

(* the first two parts of C24 with the monitor's "warning" counted as a
   signal: drift_state is None or "drift", and "drift" only after an update
   whose evaluation left the monitor in a state other than None *)
C24_NoneOrDrift ==
  [][det = "PCACD" =>
       /\ drift_state' \in {None, "drift"}
       /\ (IsUpdate /\ drift_state' = "drift")
            => call'.evaluated /\ ph'.drift_state /= None]_vars

====
